---- MODULE Spec2Model ----
(***************************************************************************)
(* Model of the two serverless endpoints of aishin-visa-bot:               *)
(*   api/fetch-news.js  fetch three government sources, filter the         *)
(*                      candidates with Gemini, insert into Supabase       *)
(*   api/news.js        GET endpoint: fetch the same sources, filter,      *)
(*                      answer the filtered list                           *)
(* A string of the program is the sequence of its UTF-16 code units, so    *)
(* that every character the program can meet has a value here; Str writes  *)
(* an ASCII string as such a sequence.  Sources are named MHLW, ISA, MOJ.  *)
(***************************************************************************)
EXTENDS Integers, Sequences, FiniteSets, TLC

VARIABLES
    env,            \* process.env: CRON_SECRET, GEMINI_API_KEY, SUPABASE_URL, SUPABASE_ANON_KEY, TZ
    req,            \* the request being handled: endpoint, method, authorization
    pc,             \* position of the handler: idle, fetching, filtering, parsing, storing,
                    \* reading, done
    outcome,        \* per source: idle, pending (fetch in flight), reading (status 2xx,
                    \* body in flight), ok, network_error, timeout, http_error, body_error
    results,        \* per source: the list its fetcher returned
    settled,        \* the sources in the order in which their fetchers settled
    allItems,       \* the candidate list
    prompt,         \* the itemList lines of the prompt sent to the filter service
    answer,         \* what the filter service answered
    filtered,       \* what filterWithGemini returned
    rowsSent,       \* the bodies of the insert requests sent to the store
    storeReply,     \* what the store answered to the insert
    errText,        \* how reading the body of a refused insert ended
    sent,           \* number of outbound requests per destination
    res             \* the response of the endpoint

vars == <<env, req, pc, outcome, results, settled, allItems, prompt, answer,
          filtered, rowsSent, storeReply, errText, sent, res>>

----------------------------------------------------------------------------
(* Bounds of the model *)

\* most records (feed items, anchors) in one fetched body
MaxItems == 2
\* most entries of the array the filter service answers, full pipeline
MaxSel == 1
\* most entries of the array the filter service answers, filter-and-store runs
MaxSelFilter == 2
\* most feed items in the candidate list of the filter-and-store runs
MaxCand == 22

(* Program constants *)

FetchNewsCap == 30
NewsCap == 20
FetchNewsMinTitle == 8
NewsMinTitle == 5
MaxTitle == 200
FetchNewsFallback == 20
NewsFallback == 15

----------------------------------------------------------------------------
(* JavaScript values and string helpers *)

\* the element of a singleton; { e : x \in {v} } computes e with x bound to
\* the value of v, so that v is computed once
The(S) == CHOOSE x \in S : TRUE

\* the printable ASCII characters in code order: U+0020 to U+005F, and
\* U+0061 to U+007E
AsciiLow == " !\"#$%&'()*+,-./0123456789:;<=>?@ABCDEFGHIJKLMNOPQRSTUVWXYZ[\\]^_"

AsciiHigh == "abcdefghijklmnopqrstuvwxyz{|}~"

\* the code unit of an ASCII character
Code(c) ==
    IF c = "\t" THEN 9
    ELSE IF c = "\n" THEN 10
    ELSE IF c = "\f" THEN 12
    ELSE IF c = "\r" THEN 13
    ELSE IF \E k \in 1..Len(AsciiLow) : SubSeq(AsciiLow, k, k) = c
    THEN 31 + (CHOOSE k \in 1..Len(AsciiLow) : SubSeq(AsciiLow, k, k) = c)
    ELSE 96 + (CHOOSE k \in 1..Len(AsciiHigh) : SubSeq(AsciiHigh, k, k) = c)

\* a string literal of the source: the code units of the ASCII string s
Str(s) == <<>> \o [i \in 1..Len(s) |-> Code(SubSeq(s, i, i))]

\* String(n) for an integer n
RECURSIVE Decimal(_)
Decimal(n) ==
    IF n < 0 THEN <<45>> \o Decimal(-n)
    ELSE IF n < 10 THEN <<48 + n>>
    ELSE Decimal(n \div 10) \o <<48 + (n % 10)>>

\* null and undefined, told apart from every string
JsNull == <<-1>>
JsUndefined == <<-2>>

\* JS truthiness of a string-or-null-or-undefined value
Truthy(v) == v \notin {<<>>, JsNull, JsUndefined}

\* a || b
OrElse(a, b) == IF Truthy(a) THEN a ELSE b

\* obj.f, undefined when the property is absent
Get(obj, f) == IF f \in DOMAIN obj THEN obj[f] ELSE JsUndefined

StartsWith(s, p) == Len(s) >= Len(p) /\ SubSeq(s, 1, Len(p)) = p

EndsWith(s, p) == Len(s) >= Len(p) /\ SubSeq(s, Len(s) - Len(p) + 1, Len(s)) = p

Includes(s, p) == \E i \in 1..(Len(s) - Len(p) + 1) : SubSeq(s, i, i + Len(p) - 1) = p

\* WhiteSpace and LineTerminator of ECMAScript: TAB, LF, VT, FF, CR, SP, NBSP,
\* the space separators (Zs) U+1680, U+2000..U+200A, U+202F, U+205F, U+3000,
\* LS, PS and the byte order mark
WhiteSpace ==
    {9, 10, 11, 12, 13, 32, 160, 5760, 8232, 8233, 8239, 8287, 12288, 65279}
    \cup (8192..8202)

\* the code units that '.' of a regular expression does not match, and that the
\* date tokenizer does not count as white space inside a word: LF, CR, LS, PS
LineTerminators == {10, 13, 8232, 8233}

\* str.trim()
RECURSIVE Trim(_)
Trim(str) ==
    The({ IF Len(s) > 0 /\ s[1] \in WhiteSpace THEN Trim(SubSeq(s, 2, Len(s)))
          ELSE IF Len(s) > 0 /\ s[Len(s)] \in WhiteSpace THEN Trim(SubSeq(s, 1, Len(s) - 1))
          ELSE s : s \in {str} })

\* '-'
Hyphen == <<45>>

\* s.padStart(2, '0')
PadStart2(s) == IF Len(s) < 2 THEN <<48>> \o s ELSE s

Min(a, b) == IF a < b THEN a ELSE b

----------------------------------------------------------------------------
(* Sources and per-endpoint constants *)

SourceSet == {"MHLW", "ISA", "MOJ"}

\* the source property of the items: '厚生労働省', '出入国在留管理庁', '法務省'
Label(src) ==
    CASE src = "MHLW" -> <<21402, 29983, 21172, 20685, 30465>>
      [] src = "ISA"  -> <<20986, 20837, 22269, 22312, 30041, 31649, 29702, 24193>>
      [] src = "MOJ"  -> <<27861, 21209, 30465>>

\* 'その他'
DefaultCategory == <<12381, 12398, 20182>>

High == Str("high")

Medium == Str("medium")

Cap(ep) == IF ep = "fetch-news" THEN FetchNewsCap ELSE NewsCap

MinTitle(ep) == IF ep = "fetch-news" THEN FetchNewsMinTitle ELSE NewsMinTitle

\* an item; its date property is publish_date in fetch-news.js, date in news.js
Item(ep, title, link, date, source) ==
    IF ep = "fetch-news"
    THEN [title |-> title, link |-> link, publish_date |-> date, source |-> source]
    ELSE [title |-> title, link |-> link, date |-> date, source |-> source]

----------------------------------------------------------------------------
(* new Date(dateStr): the date parser of the engine the two functions run on
   (Node, V8).  The string is cut into tokens, read as an ECMAScript date-time
   string (YYYY[-MM[-DD]][THH:mm[:ss[.sss]][Z|+hh:mm]]) as far as it goes, and
   what is left goes to the lenient parser, which collects up to three day
   numbers, a named month, a time and a zone from the tokens.  A time value
   is a pair: the day number since 1970-01-01 and the milliseconds within it. *)

None == -1

MsPerDay == 86400000

\* the largest day number of a time value: 8.64e15 ms
MaxDay == 100000000

\* the symbols of the tokenizer, by code unit
Symbols == (41 :> ")") @@ (43 :> "+") @@ (45 :> "-") @@ (46 :> ".") @@ (58 :> ":")

IsAsciiDigit(c) == c >= 48 /\ c <= 57

\* c | 0x20
AsciiAlphaToLower(c) == IF (c \div 32) % 2 = 0 THEN c + 32 ELSE c

\* the reader's end: past the last code unit, or at a NUL
IsEnd(s, i) == i > Len(s) \/ s[i] = 0

Token(type, n, len, c, kind) == [type |-> type, n |-> n, len |-> len, c |-> c, kind |-> kind]

EndOfInput == Token("end", 0, 0, "", "")

RECURSIVE DigitsEnd(_, _)
DigitsEnd(s, i) == IF i <= Len(s) /\ IsAsciiDigit(s[i]) THEN DigitsEnd(s, i + 1) ELSE i

RECURSIVE ZerosEnd(_, _)
ZerosEnd(s, i) == IF i <= Len(s) /\ s[i] = 48 THEN ZerosEnd(s, i + 1) ELSE i

\* the numeral in s[i .. e-1], leading zeros skipped, nine digits at most
RECURSIVE Numeral(_, _, _, _, _)
Numeral(s, i, e, n, k) ==
    IF i >= e THEN n
    ELSE Numeral(s, i + 1, e, IF k < 9 THEN n * 10 + (s[i] - 48) ELSE n, k + 1)

\* a word: code units from 'A' (65) up that are not white space; the line and
\* paragraph separators U+2028 and U+2029 are word characters here
InWord(c) == c >= 65 /\ c \notin (WhiteSpace \ LineTerminators)

RECURSIVE WordEnd(_, _)
WordEnd(s, i) == IF i <= Len(s) /\ InWord(s[i]) THEN WordEnd(s, i + 1) ELSE i

\* the keyword table, in its order: word, kind, value (the month's number,
\* 12 for PM, the zone's offset in hours)
KeywordTable ==
    << <<Str("jan"), "month", 1>>, <<Str("feb"), "month", 2>>, <<Str("mar"), "month", 3>>,
       <<Str("apr"), "month", 4>>, <<Str("may"), "month", 5>>, <<Str("jun"), "month", 6>>,
       <<Str("jul"), "month", 7>>, <<Str("aug"), "month", 8>>, <<Str("sep"), "month", 9>>,
       <<Str("oct"), "month", 10>>, <<Str("nov"), "month", 11>>, <<Str("dec"), "month", 12>>,
       <<Str("am"), "am_pm", 0>>, <<Str("pm"), "am_pm", 12>>,
       <<Str("ut"), "zone", 0>>, <<Str("utc"), "zone", 0>>, <<Str("z"), "zone", 0>>,
       <<Str("gmt"), "zone", 0>>, <<Str("cdt"), "zone", -5>>, <<Str("cst"), "zone", -6>>,
       <<Str("edt"), "zone", -4>>, <<Str("est"), "zone", -5>>, <<Str("mdt"), "zone", -6>>,
       <<Str("mst"), "zone", -7>>, <<Str("pdt"), "zone", -7>>, <<Str("pst"), "zone", -8>>,
       <<Str("t"), "separator", 0>> >>

\* a word is looked up by its first three letters, lower case; a word longer
\* than three letters can only be a month name
KeywordMatches(k, pre, len) ==
    KeywordTable[k][1] = pre /\ (len <= 3 \/ KeywordTable[k][2] = "month")

KeywordOf(pre, len) ==
    IF \E k \in 1..Len(KeywordTable) : KeywordMatches(k, pre, len)
    THEN The({ Token("keyword", KeywordTable[k][3], len, "", KeywordTable[k][2]) :
               k \in {CHOOSE k \in 1..Len(KeywordTable) : KeywordMatches(k, pre, len)} })
    ELSE Token("keyword", 0, len, "", "none")

Keyword(word) ==
    KeywordOf([k \in 1..Min(Len(word), 3) |-> AsciiAlphaToLower(word[k])], Len(word))

\* the position after the parenthesised text that starts at i
RECURSIVE ParenEnd(_, _, _)
ParenEnd(s, i, balance) ==
    The({ IF b > 0 /\ ~IsEnd(s, i + 1) THEN ParenEnd(s, i + 1, b) ELSE i + 1 :
          b \in {IF s[i] = 41 THEN balance - 1              \* ')'
                 ELSE IF s[i] = 40 THEN balance + 1 ELSE balance} })   \* '(' 

\* the token of s that starts at position i, and the position after it
ScanOne(s, i) ==
    IF IsAsciiDigit(s[i])
    THEN The({ [token |-> Token("number", Numeral(s, ZerosEnd(s, i), e, 0, 0), e - i, "", ""),
                next |-> e] : e \in {DigitsEnd(s, i)} })
    ELSE IF s[i] \in DOMAIN Symbols
    THEN [token |-> Token("symbol", 0, 1, Symbols[s[i]], ""), next |-> i + 1]
    ELSE IF InWord(s[i])
    THEN The({ [token |-> Keyword(SubSeq(s, i, e - 1)), next |-> e] : e \in {WordEnd(s, i)} })
    ELSE IF s[i] \in WhiteSpace
    THEN [token |-> Token("whitespace", 0, 1, "", ""), next |-> i + 1]
    ELSE IF s[i] = 40                                   \* '('
    THEN [token |-> Token("unknown", 0, 0, "", ""), next |-> ParenEnd(s, i, 0)]
    ELSE [token |-> Token("unknown", 0, 1, "", ""), next |-> i + 1]

\* the tokens of s from position start on
RECURSIVE Scan(_, _)
Scan(s, start) ==
    IF IsEnd(s, start) THEN <<>>
    ELSE The({ <<one.token>> \o Scan(s, one.next) : one \in {ScanOne(s, start)} })

Peek(toks, i) == IF i <= Len(toks) THEN toks[i] ELSE EndOfInput

IsNumber(t) == t.type = "number"

IsFixedNumber(t, len) == t.type = "number" /\ t.len = len

IsSymbol(t, c) == t.type = "symbol" /\ t.c = c

IsAsciiSign(t) == IsSymbol(t, "+") \/ IsSymbol(t, "-")

AsciiSign(t) == IF t.c = "+" THEN 1 ELSE -1

IsKeywordZ(t) == t.type = "keyword" /\ t.kind = "zone" /\ t.len = 1

IsMonth(n) == n >= 1 /\ n <= 12

IsDay(n) == n >= 1 /\ n <= 31

IsHour(n) == n >= 0 /\ n <= 23

IsHour12(n) == n >= 0 /\ n <= 12

IsMinute(n) == n >= 0 /\ n <= 59

IsSecond(n) == n >= 0 /\ n <= 59

IsMillisecond(n) == n >= 0 /\ n <= 999

\* the three most significant digits of a fraction of a second
RECURSIVE Shorten(_, _)
Shorten(number, length) == IF length <= 3 THEN number ELSE Shorten(number \div 10, length - 1)

ReadMilliseconds(t) ==
    IF t.len = 1 THEN t.n * 100
    ELSE IF t.len = 2 THEN t.n * 10
    ELSE Shorten(t.n, Min(t.len, 9))

\* the composers of the parser: day numbers, named month, time numbers,
\* the 12-hour offset, the zone (sign 1 or -1, 0 when the string has none),
\* and whether a number was read
Composers ==
    [ok |-> TRUE, day |-> <<>>, named |-> None, iso |-> FALSE, time |-> <<>>,
     hourOffset |-> None, sign |-> 0, hour |-> None, minute |-> None, hasNumber |-> FALSE]

Invalid == [ok |-> FALSE]

\* TimeZoneComposer::Set
SetZone(st, hours) ==
    [st EXCEPT !.sign = IF hours < 0 THEN -1 ELSE 1,
               !.hour = IF hours < 0 THEN -hours ELSE hours,
               !.minute = 0]

RECURSIVE PadZero(_)
PadZero(time) == IF Len(time) < 4 THEN PadZero(Append(time, 0)) ELSE time

\* TimeComposer::AddFinal
AddFinal(time, n) == IF Len(time) < 4 THEN PadZero(Append(time, n)) ELSE time

TimeIsExpecting(time, n) ==
    \/ Len(time) = 1 /\ IsMinute(n)
    \/ Len(time) = 2 /\ IsSecond(n)
    \/ Len(time) = 3 /\ IsMillisecond(n)

ZoneIsExpecting(st, n) == st.hour # None /\ st.minute = None /\ IsMinute(n)

ZoneIsUTC(st) == st.hour = 0 /\ st.minute = 0

\* where the lenient parser takes over: at token i, with what was read so far
Continue(i, st) == [status |-> "legacy", i |-> i, st |-> st]

Finished(st) == [status |-> "done", i |-> 0, st |-> st]

Rejected == [status |-> "invalid", i |-> 0, st |-> Invalid]

\* the end of a date-time string: a date without a time is UTC
ES5End(st) ==
    Finished([(IF st.hour = None /\ st.time = <<>> THEN SetZone(st, 0) ELSE st)
              EXCEPT !.iso = TRUE])

\* optional zone designator, Z or +hh:mm or +hhmm, then the end of the input
ES5Zone(toks, i, st) ==
    LET t == Peek(toks, i)
        a == Peek(toks, i + 1)
    IN  IF IsKeywordZ(t)
        THEN IF Peek(toks, i + 1).type = "end" THEN ES5End(SetZone(st, 0)) ELSE Rejected
        ELSE IF IsAsciiSign(t)
        THEN IF IsFixedNumber(a, 4)
             THEN IF ~IsHour(a.n \div 100) \/ ~IsMinute(a.n % 100) THEN Rejected
                  ELSE IF Peek(toks, i + 2).type # "end" THEN Rejected
                  ELSE ES5End([st EXCEPT !.sign = AsciiSign(t), !.hour = a.n \div 100,
                                         !.minute = a.n % 100])
             ELSE IF ~IsFixedNumber(a, 2) \/ ~IsHour(a.n) THEN Rejected
                  ELSE IF ~IsSymbol(Peek(toks, i + 2), ":") THEN Rejected
                  ELSE IF ~IsFixedNumber(Peek(toks, i + 3), 2) \/ ~IsMinute(Peek(toks, i + 3).n)
                       THEN Rejected
                  ELSE IF Peek(toks, i + 4).type # "end" THEN Rejected
                  ELSE ES5End([st EXCEPT !.sign = AsciiSign(t), !.hour = a.n,
                                         !.minute = Peek(toks, i + 3).n])
        ELSE IF t.type = "end" THEN ES5End(st) ELSE Rejected

\* optional :ss[.sss] after HH:mm
ES5Seconds(toks, i, st, is24) ==
    LET s == Peek(toks, i + 1)
        f == Peek(toks, i + 3)
    IN  IF ~IsSymbol(Peek(toks, i), ":") THEN ES5Zone(toks, i, st)
        ELSE IF ~IsFixedNumber(s, 2) \/ ~IsSecond(s.n) \/ (is24 /\ s.n > 0) THEN Rejected
        ELSE IF ~IsSymbol(Peek(toks, i + 2), ".")
             THEN ES5Zone(toks, i + 2, [st EXCEPT !.time = Append(@, s.n)])
        ELSE IF ~IsNumber(f) \/ (is24 /\ f.n > 0) THEN Rejected
        ELSE ES5Zone(toks, i + 4, [st EXCEPT !.time = @ \o <<s.n, ReadMilliseconds(f)>>])

\* optional time: T HH:mm[:ss[.sss]][zone]
ES5Time(toks, i, st) ==
    LET h == Peek(toks, i + 1)
        m == Peek(toks, i + 3)
    IN  IF ~(Peek(toks, i).type = "keyword" /\ Peek(toks, i).kind = "separator")
        THEN IF Peek(toks, i).type = "end" THEN ES5End(st) ELSE Continue(i, st)
        ELSE IF ~IsFixedNumber(h, 2) \/ h.n > 24 THEN Rejected
        ELSE IF ~IsSymbol(Peek(toks, i + 2), ":") THEN Rejected
        ELSE IF ~IsFixedNumber(m, 2) \/ ~IsMinute(m.n) \/ (h.n = 24 /\ m.n > 0) THEN Rejected
        ELSE ES5Seconds(toks, i + 4, [st EXCEPT !.time = <<h.n, m.n>>], h.n = 24)

\* optional -MM[-DD] after the year
ES5MonthDay(toks, i, st) ==
    LET m == Peek(toks, i + 1)
        d == Peek(toks, i + 3)
    IN  IF ~IsSymbol(Peek(toks, i), "-") THEN ES5Time(toks, i, st)
        ELSE IF ~IsFixedNumber(m, 2) \/ ~IsMonth(m.n) THEN Continue(i + 1, st)
        ELSE IF ~IsSymbol(Peek(toks, i + 2), "-")
             THEN ES5Time(toks, i + 2, [st EXCEPT !.day = Append(@, m.n)])
        ELSE IF ~IsFixedNumber(d, 2) \/ ~IsDay(d.n)
             THEN Continue(i + 3, [st EXCEPT !.day = Append(@, m.n)])
        ELSE ES5Time(toks, i + 4, [st EXCEPT !.day = @ \o <<m.n, d.n>>])

\* ParseES5DateTime: the year, YYYY or a sign and six digits
ParseES5DateTime(toks) ==
    LET t == Peek(toks, 1)
        y == Peek(toks, 2)
    IN  IF IsAsciiSign(t)
        THEN IF ~IsFixedNumber(y, 6) THEN Continue(1, Composers)
             ELSE IF AsciiSign(t) < 0 /\ y.n = 0 THEN Continue(3, Composers)
             ELSE ES5MonthDay(toks, 3, [Composers EXCEPT !.day = <<AsciiSign(t) * y.n>>])
        ELSE IF IsFixedNumber(t, 4)
        THEN ES5MonthDay(toks, 2, [Composers EXCEPT !.day = <<t.n>>])
        ELSE Continue(1, Composers)

\* a number token at i: part of the time, of the zone or of the day
LegacyNumber(toks, i, st0) ==
    LET n == toks[i].n
        st == [st0 EXCEPT !.hasNumber = TRUE]
        dot == IsSymbol(Peek(toks, i + 1), ".")
        j == IF dot THEN i + 2 ELSE i + 1
        peek == Peek(toks, j)
    IN  IF IsSymbol(Peek(toks, i + 1), ":")
        THEN IF IsSymbol(Peek(toks, i + 2), ":")
             THEN IF st.time # <<>> THEN Continue(0, Invalid)
                  ELSE Continue(i + 3, [st EXCEPT !.time = <<n, 0>>])
             ELSE IF Len(st.time) >= 4 THEN Continue(0, Invalid)
                  ELSE Continue(IF IsSymbol(Peek(toks, i + 2), ".") THEN i + 3 ELSE i + 2,
                                [st EXCEPT !.time = Append(@, n)])
        ELSE IF dot /\ TimeIsExpecting(st.time, n)
        THEN IF ~IsNumber(peek) THEN Continue(0, Invalid)
             ELSE Continue(j + 1, [st EXCEPT !.time = AddFinal(Append(@, n), ReadMilliseconds(peek))])
        ELSE IF ZoneIsExpecting(st, n)
        THEN Continue(j, [st EXCEPT !.minute = n])
        ELSE IF TimeIsExpecting(st.time, n)
        THEN IF peek.type \notin {"end", "whitespace"} /\ ~IsKeywordZ(peek) /\ ~IsAsciiSign(peek)
             THEN Continue(0, Invalid)
             ELSE Continue(j, [st EXCEPT !.time = AddFinal(@, n)])
        ELSE IF Len(st.day) >= 3 THEN Continue(0, Invalid)
        ELSE Continue(IF IsSymbol(peek, "-") THEN j + 1 ELSE j, [st EXCEPT !.day = Append(@, n)])

\* a word at i: AM or PM after a time, a month name, a zone name after a
\* number; any other word is skipped before the first number and refused after
LegacyKeyword(toks, i, st) ==
    LET t == toks[i]
    IN  IF t.kind = "am_pm" /\ st.time # <<>>
        THEN Continue(i + 1, [st EXCEPT !.hourOffset = t.n])
        ELSE IF t.kind = "month"
        THEN Continue(IF IsSymbol(Peek(toks, i + 1), "-") THEN i + 2 ELSE i + 1,
                      [st EXCEPT !.named = t.n])
        ELSE IF t.kind = "zone" /\ st.hasNumber
        THEN Continue(i + 1, SetZone(st, t.n))
        ELSE IF st.hasNumber \/ IsNumber(Peek(toks, i + 1)) THEN Continue(0, Invalid)
        ELSE Continue(i + 1, st)

\* a sign at i after UTC or a time: the offset from UTC, h, hh, hmm or hhmm,
\* or hh before a colon
LegacyOffset(toks, i, st0) ==
    LET a == Peek(toks, i + 1)
        length == IF IsNumber(a) THEN a.len ELSE 0
        n == IF IsNumber(a) THEN a.n ELSE 0
        j == IF IsNumber(a) THEN i + 2 ELSE i + 1
        st == [st0 EXCEPT !.sign = AsciiSign(toks[i]), !.hasNumber = TRUE]
    IN  IF IsSymbol(Peek(toks, j), ":")
        THEN Continue(j, [st EXCEPT !.hour = n, !.minute = None])
        ELSE IF length \in {1, 2}
        THEN Continue(j, [st EXCEPT !.hour = n, !.minute = 0])
        ELSE IF length \in {3, 4}
        THEN Continue(j, [st EXCEPT !.hour = n \div 100, !.minute = n % 100])
        ELSE Continue(0, Invalid)

\* one turn of the loop of the lenient parser, for the token at i
LegacyStep(toks, i, st) ==
    LET t == toks[i]
    IN  IF IsNumber(t) THEN LegacyNumber(toks, i, st)
        ELSE IF t.type = "keyword" THEN LegacyKeyword(toks, i, st)
        ELSE IF IsAsciiSign(t) /\ (ZoneIsUTC(st) \/ st.time # <<>>)
             THEN LegacyOffset(toks, i, st)
        ELSE IF (IsAsciiSign(t) \/ IsSymbol(t, ")")) /\ st.hasNumber
             THEN Continue(0, Invalid)
        ELSE Continue(i + 1, st)

\* the loop of the lenient parser over the tokens from i on
RECURSIVE Legacy(_, _, _)
Legacy(toks, i, st) ==
    IF ~st.ok \/ i > Len(toks) THEN st
    ELSE The({ Legacy(toks, step.i, step.st) : step \in {LegacyStep(toks, i, st)} })

RECURSIVE PadOne(_)
PadOne(day) == IF Len(day) < 3 THEN PadOne(Append(day, 1)) ELSE day

\* DayComposer::Write: which of the numbers is the year, the month, the day
DayWrite(st) ==
    IF st.day = <<>> THEN Invalid
    ELSE LET comp == PadOne(st.day)
             ymd == IF st.named = None
                    THEN IF st.iso \/ ~IsDay(comp[1])
                         THEN [year |-> comp[1], month |-> comp[2], day |-> comp[3]]
                         ELSE [year |-> comp[3], month |-> comp[1], day |-> comp[2]]
                    ELSE IF ~IsDay(comp[1])
                         THEN [year |-> comp[1], month |-> st.named, day |-> comp[2]]
                         ELSE [year |-> comp[2], month |-> st.named, day |-> comp[1]]
             year == IF st.iso THEN ymd.year
                     ELSE IF ymd.year >= 0 /\ ymd.year <= 49 THEN ymd.year + 2000
                     ELSE IF ymd.year >= 50 /\ ymd.year <= 99 THEN ymd.year + 1900
                     ELSE ymd.year
         IN  IF ~IsMonth(ymd.month) \/ ~IsDay(ymd.day) THEN Invalid
             ELSE [ok |-> TRUE, year |-> year, month |-> ymd.month, day |-> ymd.day]

\* TimeComposer::Write: the milliseconds since midnight
TimeWrite(st) ==
    LET comp == PadZero(st.time)
        hour == IF st.hourOffset # None THEN (comp[1] % 12) + st.hourOffset ELSE comp[1]
    IN  IF st.hourOffset # None /\ ~IsHour12(comp[1]) THEN Invalid
        ELSE IF /\ ~(IsHour(hour) /\ IsMinute(comp[2]) /\ IsSecond(comp[3])
                     /\ IsMillisecond(comp[4]))
                /\ ~(hour = 24 /\ comp[2] = 0 /\ comp[3] = 0 /\ comp[4] = 0)
             THEN Invalid
        ELSE [ok |-> TRUE, ms |-> ((hour * 60 + comp[2]) * 60 + comp[3]) * 1000 + comp[4]]

\* hour * 3600 + minute * 60 as the unsigned 32-bit number the composer
\* computes, in two 16-bit halves
TotalSeconds(hour, minute) ==
    The({ [high |-> ((hour \div 65536) * 3600 + low \div 65536) % 65536, low |-> low % 65536] :
          low \in {(hour % 65536) * 3600 + minute * 60} })

\* TimeZoneComposer::Write: the offset from UTC in seconds, if the string has
\* one; a total above the largest small integer, 2^31 - 1, is refused
ZoneWrite(st) ==
    IF st.sign = 0 THEN [ok |-> TRUE, local |-> TRUE, seconds |-> 0]
    ELSE The({ IF total.high >= 32768 THEN Invalid
               ELSE [ok |-> TRUE, local |-> FALSE,
                     seconds |-> st.sign * (total.high * 65536 + total.low)] :
               total \in {TotalSeconds(IF st.hour = None THEN 0 ELSE st.hour,
                                       IF st.minute = None THEN 0 ELSE st.minute)} })

\* the day number of a date of the proleptic Gregorian calendar
DaysFromCivil(year, month, day) ==
    LET y == IF month <= 2 THEN year - 1 ELSE year
        era == y \div 400
        yoe == y - era * 400
        doy == (153 * (IF month > 2 THEN month - 3 ELSE month + 9) + 2) \div 5 + day - 1
        doe == yoe * 365 + yoe \div 4 - yoe \div 100 + doy
    IN  era * 146097 + doe - 719468

\* the date of a day number
CivilFromDays(days) ==
    LET z == days + 719468
        era == z \div 146097
        doe == z - era * 146097
        yoe == (doe - doe \div 1460 + doe \div 36524 - doe \div 146096) \div 365
        doy == doe - (365 * yoe + yoe \div 4 - yoe \div 100)
        mp == (5 * doy + 2) \div 153
        month == IF mp < 10 THEN mp + 3 ELSE mp - 9
    IN  [year |-> yoe + era * 400 + (IF month <= 2 THEN 1 ELSE 0),
         month |-> month,
         day |-> doy - (153 * mp + 2) \div 5 + 1]

\* the zones of the model have a fixed offset from UTC, in minutes east:
\* Etc/GMT-9 is nine hours ahead of UTC, Etc/GMT+5 five hours behind
ZoneOffset(tz) ==
    CASE tz = "UTC"       -> 0
      [] tz = "Etc/GMT-9" -> 540
      [] tz = "Etc/GMT+5" -> -300

NaN == [valid |-> FALSE]

\* a time value, if it is within 8.64e15 ms of the epoch
TimeClip(day, ms) ==
    LET d == day + ms \div MsPerDay
        m == ms % MsPerDay
    IN  IF d < -MaxDay \/ d > MaxDay \/ (d = MaxDay /\ m > 0) THEN NaN
        ELSE [valid |-> TRUE, day |-> d, ms |-> m]

\* what the two parsers make of the tokens
Parsed(toks) ==
    The({ IF es5.status = "legacy"
          THEN Legacy(toks, es5.i, [es5.st EXCEPT !.hasNumber = es5.st.day # <<>>])
          ELSE es5.st : es5 \in {ParseES5DateTime(toks)} })

\* the time value of a day and a time of day, at offset seconds east of UTC
MakeDate(day, time, offset) ==
    IF ~day.ok \/ ~time.ok THEN NaN
    ELSE IF day.year < -271822 \/ day.year > 275761 THEN NaN
    ELSE TimeClip(DaysFromCivil(day.year, day.month, 1) + day.day - 1 - offset \div 86400,
                  time.ms - (offset % 86400) * 1000)

\* new Date(dateStr).getTime() in a process whose time zone is tz
DateParse(dateStr, tz) ==
    The({ IF ~st.ok THEN NaN
          ELSE The({ IF ~zone.ok THEN NaN
                     ELSE MakeDate(day, time,
                                   IF zone.local THEN ZoneOffset(tz) * 60 ELSE zone.seconds) :
                     day \in {DayWrite(st)}, time \in {TimeWrite(st)}, zone \in {ZoneWrite(st)} })
          : st \in {The({ Parsed(toks) : toks \in {Scan(dateStr, 1)} })} })

\* getFullYear(), getMonth() + 1 and getDate() of a time value in zone tz
LocalDate(t, tz) == CivilFromDays(t.day + (t.ms + ZoneOffset(tz) * 60000) \div MsPerDay)

\* the date as YYYY-MM-DD of the process's time zone; the string itself when
\* it is not a date
formatDate(dateStr, tz) ==
    IF ~Truthy(dateStr) THEN <<>>
    ELSE The({ IF ~d.valid THEN dateStr
               ELSE The({ Decimal(local.year) \o Hyphen \o PadStart2(Decimal(local.month))
                          \o Hyphen \o PadStart2(Decimal(local.day)) :
                          local \in {LocalDate(d, tz)} })
               : d \in {DateParse(dateStr, tz)} })

----------------------------------------------------------------------------
(* Extractors.  A feed body is the sequence of its <item> blocks, each with
   the text its title, link, dc:date and pubDate tags hold, the empty string
   when the tag is absent.  An HTML body is the sequence of its anchors: href, the inner
   markup as segments, and the date the window before the anchor holds, if
   any.  tz is the time zone of the process. *)

\* (?:<!\[CDATA\[)?(.+?)(?:\]\]>)? in front of the closing tag, flag i: the group
\* is the text between the tags without a leading '<![CDATA[' (in either case)
\* and without a trailing ']]>', each left in place when removing it would
\* leave nothing
Captured(text) ==
    LET open == <<60, 33, 91, 67, 68, 65, 84, 65, 91>>
        close == <<93, 93, 62>>
        upper == [i \in 1..Len(text) |->
                    IF text[i] \in 97..122 THEN text[i] - 32 ELSE text[i]]
        rest == IF Len(text) > Len(open) /\ SubSeq(upper, 1, Len(open)) = open
                THEN SubSeq(text, Len(open) + 1, Len(text))
                ELSE text
    IN  IF Len(rest) > Len(close) /\ EndsWith(rest, close)
        THEN SubSeq(rest, 1, Len(rest) - Len(close))
        ELSE rest

\* m ? m[1].trim() : '' -- no match when the tag is absent or empty, or when
\* its text holds a line terminator, which '.' does not match
extractTag(block, tag) ==
    IF block[tag] = <<>> \/ \E i \in 1..Len(block[tag]) : block[tag][i] \in LineTerminators
    THEN <<>>
    ELSE Trim(Captured(block[tag]))

RECURSIVE parseRSSFrom(_, _, _, _, _)
parseRSSFrom(ep, blocks, source, tz, items) ==
    IF blocks = <<>> \/ Len(items) >= Cap(ep) THEN items
    ELSE The({ parseRSSFrom(ep, Tail(blocks), source, tz,
                   IF Truthy(title)
                   THEN Append(items, Item(ep, title, link, formatDate(date, tz), source))
                   ELSE items) :
               title \in {extractTag(Head(blocks), "title")},
               link \in {extractTag(Head(blocks), "link")},
               date \in {OrElse(extractTag(Head(blocks), "dcDate"),
                                extractTag(Head(blocks), "pubDate"))} })

parseRSS(ep, blocks, source, tz) == parseRSSFrom(ep, blocks, source, tz, <<>>)

\* match[2].replace(/<[^>]+>/g, '')
RECURSIVE StripTags(_)
StripTags(inner) ==
    IF inner = <<>> THEN <<>>
    ELSE (IF Head(inner).tag THEN <<>> ELSE Head(inner).text) \o StripTags(Tail(inner))

NoDate == <<>>

NearDate(near) ==
    IF near = NoDate THEN <<>>
    ELSE near[1] \o Hyphen \o PadStart2(near[2]) \o Hyphen \o PadStart2(near[3])

Origin == Str("https://www.moj.go.jp")

IndexHtml == Str("index.html")

IsaPath == Str("/isa/")

HishoPath == Str("/hisho/")

NyuukokuPath == Str("/nyuukokukanri/")

\* '/' is code unit 47
Absolute(href) == IF StartsWith(href, <<47>>) THEN Origin \o href ELSE href

IsIndexPage(ep, href) ==
    IF ep = "fetch-news" THEN EndsWith(href, IndexHtml) ELSE Includes(href, IndexHtml)

ISALink(ep, href) == Includes(href, IsaPath) /\ ~IsIndexPage(ep, href)

MOJLink(ep, href) ==
    ~IsIndexPage(ep, href) /\ (Includes(href, HishoPath) \/ Includes(href, NyuukokuPath))

RECURSIVE parsePageFrom(_, _, _, _)
parsePageFrom(ep, anchors, src, items) ==
    IF anchors = <<>> \/ Len(items) >= Cap(ep) THEN items
    ELSE The({ parsePageFrom(ep, Tail(anchors), src,
                   IF /\ Truthy(title)
                      /\ Len(title) >= MinTitle(ep)
                      /\ Len(title) <= MaxTitle
                      /\ IF src = "ISA" THEN ISALink(ep, href) ELSE MOJLink(ep, href)
                   THEN Append(items, Item(ep, title, href, NearDate(Head(anchors).near),
                                           Label(src)))
                   ELSE items) :
               title \in {Trim(StripTags(Head(anchors).inner))},
               href \in {Absolute(Head(anchors).href)} })

parseISAPage(ep, anchors) == parsePageFrom(ep, anchors, "ISA", <<>>)

parseMOJPage(ep, anchors) == parsePageFrom(ep, anchors, "MOJ", <<>>)

Extract(ep, src, body, tz) ==
    CASE src = "MHLW" -> parseRSS(ep, body, Label("MHLW"), tz)
      [] src = "ISA"  -> parseISAPage(ep, body)
      [] src = "MOJ"  -> parseMOJPage(ep, body)

----------------------------------------------------------------------------
(* Relevance filter *)

\* the itemList lines of the prompt: `${i}: [${item.source}] ${item.title}`
ItemList(items) ==
    [i \in 1..Len(items) |->
        [index |-> i - 1, source |-> items[i].source, title |-> items[i].title]]

Defaults == [summary |-> JsNull, relevance |-> Medium, category |-> DefaultCategory]

\* faulty variant: the prefix is not cut
FallbackUnsliced(items, n) == [i \in 1..Len(items) |-> Defaults @@ items[i]]

\* items.slice(0, n) with the placeholder metadata spread over each item
Fallback(items, n) == [i \in 1..Min(Len(items), n) |-> Defaults @@ items[i]]

IsNull(sel) == "isNull" \in DOMAIN sel

\* items[sel.index]: undefined unless the index is one of 0 .. length-1
AtIndex(items, sel) ==
    IF "index" \in DOMAIN sel /\ sel.index \in 0..(Len(items) - 1)
    THEN items[sel.index + 1]
    ELSE <<>>

\* { ...items[sel.index], summary: sel.summary, relevance: ..., category: ... }
Enrich(items, sel) ==
    [summary |-> Get(sel, "summary"),
     relevance |-> Get(sel, "relevance"),
     category |-> Get(sel, "category")] @@ AtIndex(items, sel)

\* .filter((a) => a && a.title)
HasTitle(a) == Truthy(Get(a, "title"))

\* selected.map(...).filter(...)
MapSelected(items, selected) ==
    SelectSeq([i \in 1..Len(selected) |-> Enrich(items, selected[i])], HasTitle)

\* which return of filterWithGemini the answer leads to: "fallback" for the
\* three returns of the unfiltered prefix, "selected" for the mapped selection
FilterPath(ans) ==
    IF ans.kind # "json" THEN "fallback"                 \* fetch rejects, !res.ok, res.json() throws
    ELSE IF ans.text = "none" THEN "selected"            \* reply = '[]'
    ELSE IF ans.text = "prose" THEN "fallback"           \* no bracketed substring
    ELSE IF ans.text = "malformed" THEN "fallback"       \* JSON.parse throws
    ELSE IF \E i \in 1..Len(ans.selected) : IsNull(ans.selected[i])
         THEN "fallback"                                 \* sel.index of null throws
    ELSE "selected"

\* the array JSON.parse returns on the "selected" path
Selected(ans) == IF ans.text = "none" THEN <<>> ELSE ans.selected

filterWithGemini(items, ans) ==
    IF FilterPath(ans) = "fallback"
    THEN Fallback(items, FetchNewsFallback)
    ELSE MapSelected(items, Selected(ans))

HighCount(articles) ==
    Cardinality({i \in 1..Len(articles) : Get(articles[i], "relevance") = High})

\* filterWithGemini of news.js: the items themselves on the fallback path
newsFilterWithGemini(items, ans) ==
    IF FilterPath(ans) = "fallback"
    THEN [articles |-> SubSeq(items, 1, Min(Len(items), NewsFallback)),
          summary |-> IF ans.kind = "json" /\ ans.text = "prose"
                      THEN <<"filter-error">> ELSE <<"unavailable">>,
          filtered |-> FALSE]
    ELSE The({ [articles |-> articles,
                summary |-> IF Len(articles) > 0
                            THEN <<"found", Len(articles), HighCount(articles)>>
                            ELSE <<"none">>,
                filtered |-> TRUE] : articles \in {MapSelected(items, Selected(ans))} })

----------------------------------------------------------------------------
(* Persistence *)

Row(a) ==
    [title |-> Get(a, "title"),
     link |-> OrElse(Get(a, "link"), JsNull),
     publish_date |-> OrElse(Get(a, "publish_date"), JsNull),
     source |-> Get(a, "source"),
     summary |-> OrElse(Get(a, "summary"), JsNull),
     relevance |-> OrElse(Get(a, "relevance"), Medium),
     category |-> OrElse(Get(a, "category"), DefaultCategory)]

Rows(articles) == [i \in 1..Len(articles) |-> Row(articles[i])]

----------------------------------------------------------------------------
(* Inputs: environments, requests, upstream bodies and answers *)

\* the sequences over S of length at most n
SeqsUpTo(S, n) == UNION {[1..k -> S] : k \in 0..n}

Secret == Str("s3cret")

FullConfig ==
    [GEMINI_API_KEY |-> Str("gk"), SUPABASE_URL |-> Str("https://db.example"),
     SUPABASE_ANON_KEY |-> Str("sk")]

\* the time zones of the process
Zones == {"UTC", "Etc/GMT-9"}

\* the environments of the full runs: without a secret in UTC, with a secret
\* nine hours ahead of UTC, and one per missing configuration value
Envs ==
    {[CRON_SECRET |-> <<>>, TZ |-> "UTC"] @@ FullConfig,
     [CRON_SECRET |-> Secret, TZ |-> "Etc/GMT-9"] @@ FullConfig}
    \cup {[CRON_SECRET |-> <<>>, TZ |-> "UTC"] @@ [FullConfig EXCEPT ![k] = <<>>] :
            k \in {"GEMINI_API_KEY", "SUPABASE_URL", "SUPABASE_ANON_KEY"}}

FetchNewsRequests ==
    [endpoint : {"fetch-news"}, method : {"GET", "POST"},
     authorization : {JsUndefined, Str("Bearer ") \o Secret, Secret}]

NewsRequests ==
    [endpoint : {"news"}, method : {"GET", "POST"}, authorization : {JsUndefined}]

\* the first item has its title in a CDATA section and its dc:date on a line
\* of its own; the title of the second spans two lines
RssBlocks ==
    {[title |-> Str("<![CDATA[Employment notice]]>"),
      link |-> Str("https://www.mhlw.go.jp/stf/newpage_1.html"),
      dcDate |-> Str("\n2024-03-01\n"), pubDate |-> Str("Tue, 05 Mar 2024 01:00:00 +0900")],
     [title |-> Str("Notice of\nchange"), link |-> Str("https://www.mhlw.go.jp/stf/newpage_2.html"),
      dcDate |-> <<>>, pubDate |-> <<>>]}

\* the text of the first anchor is padded with a no-break space, a line feed,
\* a tab and a space
IsaAnchors ==
    {[href |-> Str("/isa/policies/a.html"),
      inner |-> <<[tag |-> TRUE, text |-> Str("<span>")],
                  [tag |-> FALSE, text |-> <<160>> \o Str("\n\t New residence status rule \n")],
                  [tag |-> TRUE, text |-> Str("</span>")]>>,
      near |-> NoDate],
     [href |-> Str("/isa/index.html"),
      inner |-> <<[tag |-> FALSE, text |-> Str("Immigration Services Agency")]>>,
      near |-> NoDate]}

MojAnchors ==
    {[href |-> Str("/hisho/kouhou/press1.html"),
      inner |-> <<[tag |-> FALSE, text |-> Str("Press release on immigration")]>>,
      near |-> <<Str("2024"), Str("3"), Str("5")>>],
     [href |-> Str("/hisho/a.html"),
      inner |-> <<[tag |-> FALSE, text |-> Str("\n    Top\n    ")]>>,
      near |-> NoDate]}

Records(src) ==
    CASE src = "MHLW" -> RssBlocks
      [] src = "ISA"  -> IsaAnchors
      [] src = "MOJ"  -> MojAnchors

Bodies(src) == SeqsUpTo(Records(src), MaxItems)

\* how the fetch of a source settles: it rejects (network error, or the
\* AbortSignal timeout fires), or it resolves with a status, refused or ok
FetchReplies == {"network_error", "timeout", "http_error", "ok"}

\* how await res.text() settles after an ok status: it rejects, or it
\* resolves with the body
BodyReplies(src) ==
    {[kind |-> "body_error", body |-> <<>>]} \cup {[kind |-> "ok", body |-> b] : b \in Bodies(src)}

\* the ways a fetcher ends with an empty list
FailureKinds == {"network_error", "timeout", "http_error", "body_error"}

\* an entry of the answered array without its index; the category is '在留資格'
Entry ==
    [summary |-> Str("affects hiring"), relevance |-> Str("high"),
     category |-> <<22312, 30041, 36039, 26684>>]

Enrichment(rel) == [Entry EXCEPT !.relevance = rel]

Low == Str("low")

NullEntry == [isNull |-> TRUE]

\* entries of the answered array, for a candidate list of n items
PipelineEntries(n) ==
    {[index |-> i] @@ Enrichment(High) : i \in {0, n}} \cup {NullEntry}

\* entries of the answered array, for a candidate list of n items: with all
\* three fields, with none, without an index, null, with summary and category
\* '' and relevance null, and with summary and category null and relevance ''
FilterEntries(n) ==
    {[index |-> i] @@ Enrichment(r) : i \in {0, n - 1, n}, r \in {High, Low}}
    \cup {[index |-> 0], Enrichment(High), NullEntry}
    \cup {[index |-> 0, summary |-> <<>>, relevance |-> JsNull, category |-> <<>>],
          [index |-> n - 1, summary |-> JsNull, relevance |-> <<>>, category |-> JsNull]}

\* how the call of the filter service settles: the fetch rejects, or it
\* resolves with a status, refused or ok
GeminiReplies == {"transport_error", "http_error", "ok"}

\* the answer of a filter call that did not get an ok status
Refusal(kind) == [kind |-> kind, text |-> "none", selected |-> <<>>]

\* how await res.json() settles after an ok status: it rejects (the body is
\* not JSON), or it resolves with JSON whose first candidate's text is absent
\* ("none"), has no bracketed substring ("prose"), has one that is not JSON
\* ("malformed"), or holds an array
GeminiBodies(entries, maxSel) ==
    {Refusal("bad_json")}
    \cup {[kind |-> "json", text |-> t, selected |-> <<>>] : t \in {"none", "prose", "malformed"}}
    \cup {[kind |-> "json", text |-> "array", selected |-> q] : q \in SeqsUpTo(entries, maxSel)}

StoreReplies == {"ok", "http_error", "transport_error"}

----------------------------------------------------------------------------
(* State machine *)

NoResponse == [status |-> 0]

NoAnswer == [kind |-> "pending"]

Zero == [d \in SourceSet \cup {"gemini", "supabase"} |-> 0]

Init ==
    /\ env \in Envs
    /\ req = [endpoint |-> "none"]
    /\ pc = "idle"
    /\ outcome = [s \in SourceSet |-> "idle"]
    /\ results = [s \in SourceSet |-> <<>>]
    /\ settled = <<>>
    /\ allItems = <<>>
    /\ prompt = <<>>
    /\ answer = NoAnswer
    /\ filtered = <<>>
    /\ rowsSent = <<>>
    /\ storeReply = "none"
    /\ errText = "none"
    /\ sent = Zero
    /\ res = NoResponse

Respond(status, body) == res' = [status |-> status, body |-> body]

\* `Bearer ${cronSecret}`
Bearer(secret) == Str("Bearer ") \o secret

\* faulty variant: POST is not exempt from the secret
UnauthorizedAnyMethod(secret, r) ==
    /\ Truthy(secret)
    /\ r.authorization # Bearer(secret)

\* the gate of fetch-news: a configured secret, a header that is not its
\* bearer form, and a method other than POST
Unauthorized(secret, r) ==
    /\ Truthy(secret)
    /\ r.authorization # Bearer(secret)
    /\ r.method # "POST"

MissingConfig(e) ==
    ~Truthy(e.GEMINI_API_KEY) \/ ~Truthy(e.SUPABASE_URL) \/ ~Truthy(e.SUPABASE_ANON_KEY)

\* Promise.all([fetchMHLW(), fetchISA(), fetchMOJ()]): each fetcher runs up
\* to its fetch(), so the three GETs are issued before the handler suspends
StartFetchers ==
    /\ outcome' = [s \in SourceSet |-> "pending"]
    /\ sent' = [d \in DOMAIN sent |-> IF d \in SourceSet THEN sent[d] + 1 ELSE sent[d]]
    /\ pc' = "fetching"
    /\ UNCHANGED res

\* handler of fetch-news.js up to its first suspension
FetchNewsHandler(r) ==
    /\ pc = "idle"
    /\ req' = r
    /\ IF Unauthorized(env.CRON_SECRET, r)
       THEN /\ Respond(401, [error |-> "Unauthorized"])
            /\ pc' = "done"
            /\ UNCHANGED <<outcome, sent>>
       ELSE IF MissingConfig(env)
       THEN /\ Respond(500, [error |-> "Missing configuration"])
            /\ pc' = "done"
            /\ UNCHANGED <<outcome, sent>>
       ELSE StartFetchers
    /\ UNCHANGED <<env, results, settled, allItems, prompt, answer, filtered, rowsSent,
                   storeReply, errText>>

\* handler of news.js up to its first suspension
NewsHandler(r) ==
    /\ pc = "idle"
    /\ req' = r
    /\ IF r.method # "GET"
       THEN /\ Respond(405, [error |-> "Method not allowed"])
            /\ pc' = "done"
            /\ UNCHANGED <<outcome, sent>>
       ELSE IF ~Truthy(env.GEMINI_API_KEY)
       THEN /\ Respond(500, [error |-> "API key not configured"])
            /\ pc' = "done"
            /\ UNCHANGED <<outcome, sent>>
       ELSE StartFetchers
    /\ UNCHANGED <<env, results, settled, allItems, prompt, answer, filtered, rowsSent,
                   storeReply, errText>>

\* faulty variant: a rejected fetch or body read is not caught by the fetcher
FetcherUncaught(ep, src, reply, tz) ==
    CASE reply.kind = "ok"         -> [threw |-> FALSE, items |-> Extract(ep, src, reply.body, tz)]
      [] reply.kind = "http_error" -> [threw |-> FALSE, items |-> <<>>]
      [] OTHER                     -> [threw |-> TRUE, items |-> <<>>]

\* what fetchMHLW / fetchISA / fetchMOJ return for the way their request
\* ended: the extractor's output for a body that was read, [] for !res.ok
\* and in the catch (the fetch or the body read rejected)
Fetcher(ep, src, reply, tz) ==
    IF reply.kind = "ok"
    THEN [threw |-> FALSE, items |-> Extract(ep, src, reply.body, tz)]
    ELSE [threw |-> FALSE, items |-> <<>>]

FailedBody(ep) ==
    IF ep = "fetch-news" THEN [error |-> "Failed to fetch news"] ELSE [error |-> "news-failed"]

\* a fetcher returns; a rejection would reject Promise.all and reach the
\* handler's catch
FetcherReturns(src, reply) ==
    /\ \E r \in {Fetcher(req.endpoint, src, reply, env.TZ)} :
          IF r.threw
          THEN /\ Respond(500, FailedBody(req.endpoint))
               /\ pc' = "done"
               /\ UNCHANGED results
          ELSE /\ results' = [results EXCEPT ![src] = r.items]
               /\ UNCHANGED <<pc, res>>
    /\ outcome' = [outcome EXCEPT ![src] = reply.kind]
    /\ settled' = Append(settled, src)
    /\ UNCHANGED <<env, req, allItems, prompt, answer, filtered, rowsSent, storeReply,
                   errText, sent>>

\* await fetch(...) of one source settles: with an ok status the fetcher goes
\* on to read the body, otherwise it returns
FetchSettles(src, kind) ==
    /\ pc = "fetching"
    /\ outcome[src] = "pending"
    /\ IF kind = "ok"
       THEN /\ outcome' = [outcome EXCEPT ![src] = "reading"]
            /\ UNCHANGED <<env, req, pc, results, settled, allItems, prompt, answer, filtered,
                           rowsSent, storeReply, errText, sent, res>>
       ELSE FetcherReturns(src, [kind |-> kind, body |-> <<>>])

\* await res.text() of one source settles; the fetcher returns
BodySettles(src, replies) ==
    /\ pc = "fetching"
    /\ outcome[src] = "reading"
    /\ \E reply \in replies : FetcherReturns(src, reply)

\* faulty variant: the lists are joined in the order in which the fetchers settled
ConcatInSettledOrder(r) == r[settled[1]] \o r[settled[2]] \o r[settled[3]]

\* const allItems = [...mhlwItems, ...isaItems, ...mojItems]
Concat(r) == r["MHLW"] \o r["ISA"] \o r["MOJ"]

NoItemsBody(ep) ==
    IF ep = "fetch-news"
    THEN [message |-> "No items fetched", fetched |-> 0, stored |-> 0]
    ELSE [articles |-> <<>>, summary |-> <<"not-fetched">>]

\* whether the handler calls filterWithGemini for this candidate list
CallsFilter(items) == Len(items) # 0

\* Promise.all resolves: the candidate list, then the filter call if any
AllSettled ==
    /\ pc = "fetching"
    /\ \A s \in SourceSet : outcome[s] \notin {"idle", "pending", "reading"}
    /\ allItems' = Concat(results)
    /\ IF CallsFilter(allItems')
       THEN /\ prompt' = ItemList(allItems')
            /\ sent' = [sent EXCEPT !["gemini"] = @ + 1]
            /\ pc' = "filtering"
            /\ UNCHANGED res
       ELSE /\ Respond(200, NoItemsBody(req.endpoint))
            /\ pc' = "done"
            /\ UNCHANGED <<prompt, sent>>
    /\ UNCHANGED <<env, req, outcome, results, settled, answer, filtered, rowsSent,
                   storeReply, errText>>

\* faulty variant: the empty list is not short-circuited
SendsInsertAlways(articles) == TRUE

\* whether storeInSupabase sends the insert for these articles
SendsInsert(articles) == Len(articles) # 0

SuccessBody(stored) ==
    [message |-> "News fetched and stored", fetched |-> Len(allItems),
     filtered |-> Len(filtered'), stored |-> stored]

\* filterWithGemini of fetch-news.js has returned; storeInSupabase runs up to
\* its fetch()
FetchNewsFiltered(ans) ==
    /\ filtered' = filterWithGemini(allItems, ans)
    /\ IF SendsInsert(filtered')
       THEN /\ rowsSent' = Append(rowsSent, Rows(filtered'))
            /\ sent' = [sent EXCEPT !["supabase"] = @ + 1]
            /\ pc' = "storing"
            /\ UNCHANGED res
       ELSE /\ Respond(200, SuccessBody(0))
            /\ pc' = "done"
            /\ UNCHANGED <<rowsSent, sent>>

\* filterWithGemini of news.js has returned; the handler answers its result
\* (the Cache-Control header it sets is left out)
NewsFiltered(ans) ==
    /\ filtered' = newsFilterWithGemini(allItems, ans)
    /\ Respond(200, filtered')
    /\ pc' = "done"
    /\ UNCHANGED <<rowsSent, sent>>

\* filterWithGemini returns for the answer ans; the handler goes on
FilterReturns(ans) ==
    /\ answer' = ans
    /\ IF req.endpoint = "fetch-news" THEN FetchNewsFiltered(ans) ELSE NewsFiltered(ans)
    /\ UNCHANGED <<env, req, outcome, results, settled, allItems, prompt, storeReply,
                   errText>>

\* await fetch(...) of the filter call settles: with an ok status
\* filterWithGemini goes on to read the body, otherwise it returns
FilterSettles(kind) ==
    /\ pc = "filtering"
    /\ IF kind = "ok"
       THEN /\ pc' = "parsing"
            /\ UNCHANGED <<env, req, outcome, results, settled, allItems, prompt, answer,
                           filtered, rowsSent, storeReply, errText, sent, res>>
       ELSE FilterReturns(Refusal(kind))

\* await res.json() of the filter call settles
FilterBodySettles(answers) ==
    /\ pc = "parsing"
    /\ \E ans \in answers : FilterReturns(ans)

\* how reading the body of a refused insert can end: res.text() resolves or rejects
ErrorReads == {"read", "rejected"}

\* what storeInSupabase returns and whether it throws, for the answer to its
\* insert and, when the store refused it, the end of await res.text()
Stored(reply, read, rows) ==
    CASE reply = "ok"              -> [threw |-> FALSE, count |-> Len(rows)]
      [] reply = "transport_error" -> [threw |-> TRUE, count |-> 0]
      [] reply = "http_error"      -> [threw |-> read = "rejected", count |-> 0]

\* storeInSupabase has returned or thrown; the handler answers
Answer(r) ==
    /\ IF r.threw
       THEN Respond(500, FailedBody(req.endpoint))
       ELSE Respond(200, [message |-> "News fetched and stored",
                          fetched |-> Len(allItems),
                          filtered |-> Len(filtered),
                          stored |-> r.count])
    /\ pc' = "done"

\* the insert settles: the handler answers, or storeInSupabase goes on to
\* read the body of the refusal
StoreSettles(reply) ==
    /\ pc = "storing"
    /\ storeReply' = reply
    /\ IF reply = "http_error"
       THEN pc' = "reading" /\ UNCHANGED res
       ELSE Answer(Stored(reply, "none", rowsSent[Len(rowsSent)]))
    /\ UNCHANGED <<env, req, outcome, results, settled, allItems, prompt, answer,
                   filtered, rowsSent, errText, sent>>

\* await res.text() of the refused insert settles; the handler answers
ErrorBodySettles(read) ==
    /\ pc = "reading"
    /\ errText' = read
    /\ Answer(Stored(storeReply, read, rowsSent[Len(rowsSent)]))
    /\ UNCHANGED <<env, req, outcome, results, settled, allItems, prompt, answer,
                   filtered, rowsSent, storeReply, sent>>

Next ==
    \/ \E r \in FetchNewsRequests : FetchNewsHandler(r)
    \/ \E r \in NewsRequests : NewsHandler(r)
    \/ \E s \in SourceSet : \E kind \in FetchReplies : FetchSettles(s, kind)
    \/ \E s \in SourceSet : BodySettles(s, BodyReplies(s))
    \/ AllSettled
    \/ \E kind \in GeminiReplies : FilterSettles(kind)
    \/ FilterBodySettles(GeminiBodies(PipelineEntries(Len(allItems)), MaxSel))
    \/ \E reply \in StoreReplies : StoreSettles(reply)
    \/ \E read \in ErrorReads : ErrorBodySettles(read)

Spec == Init /\ [][Next]_vars

----------------------------------------------------------------------------
(* Filter-and-store runs: the handler has just issued the filter call for a
   candidate list of up to MaxCand feed items (the two HTML sources failed);
   the answers range over arrays of up to MaxSelFilter entries. *)

FeedBlock(i) ==
    [title |-> IF i % 4 = 0 THEN Str("<![CDATA[Notice ") \o Decimal(i) \o Str("]]>")
               ELSE Str("Notice ") \o Decimal(i),
     link |-> IF i % 2 = 0 THEN <<>>
              ELSE Str("https://www.mhlw.go.jp/stf/newpage_") \o Decimal(i) \o Str(".html"),
     dcDate |-> IF i % 3 = 1 THEN Str("2024-03-05T01:00:00+09:00") ELSE <<>>,
     pubDate |-> IF i % 3 = 2 THEN Str("Wed, 06 Mar 2024 23:30:00 GMT") ELSE <<>>]

FilterRequests ==
    {[endpoint |-> "fetch-news", method |-> "POST", authorization |-> JsUndefined],
     [endpoint |-> "news", method |-> "GET", authorization |-> JsUndefined]}

InitFilter ==
    /\ env \in {[CRON_SECRET |-> <<>>, TZ |-> z] @@ FullConfig : z \in Zones}
    /\ req \in FilterRequests
    /\ pc = "filtering"
    /\ outcome = [s \in SourceSet |-> CASE s = "MHLW" -> "ok"
                                       [] s = "ISA"  -> "timeout"
                                       [] s = "MOJ"  -> "http_error"]
    /\ settled = <<"MOJ", "ISA", "MHLW">>
    /\ \E n \in 1..MaxCand :
          results = [s \in SourceSet |->
                        IF s = "MHLW"
                        THEN Fetcher(req.endpoint, s,
                                     [kind |-> "ok", body |-> [i \in 1..n |-> FeedBlock(i)]],
                                     env.TZ).items
                        ELSE <<>>]
    /\ allItems = Concat(results)
    /\ prompt = ItemList(allItems)
    /\ answer = NoAnswer
    /\ filtered = <<>>
    /\ rowsSent = <<>>
    /\ storeReply = "none"
    /\ errText = "none"
    /\ sent = [d \in DOMAIN Zero |-> IF d = "supabase" THEN 0 ELSE 1]
    /\ res = NoResponse

NextFilter ==
    \/ \E kind \in GeminiReplies : FilterSettles(kind)
    \/ FilterBodySettles(GeminiBodies(FilterEntries(Len(allItems)), MaxSelFilter))
    \/ \E reply \in StoreReplies : StoreSettles(reply)
    \/ \E read \in ErrorReads : ErrorBodySettles(read)

SpecFilter == InitFilter /\ [][NextFilter]_vars

----------------------------------------------------------------------------
(* Claims *)

IsFetchNews == req.endpoint = "fetch-news"

Answered == answer.kind # "pending"

HasNullEntry == \E i \in 1..Len(answer.selected) : answer.selected[i] = NullEntry

AnsweredArray == Answered /\ answer.kind = "json" /\ answer.text = "array"

FetchersSettled == \A s \in SourceSet : outcome[s] \in FailureKinds \cup {"ok"}

\* storeInSupabase threw: the insert was rejected, or the body of its refusal
\* could not be read
StoreThrew == storeReply = "transport_error" \/ errText = "rejected"

\* the filter call ended in a transport error, a non-success status, a body
\* that is not JSON, a reply without a parsable array, or an exception while
\* the selection was mapped
FilterCallFailed ==
    \/ answer.kind \in {"transport_error", "http_error", "bad_json"}
    \/ answer.kind = "json" /\ answer.text \in {"prose", "malformed"}
    \/ answer.kind = "json" /\ answer.text = "array" /\ HasNullEntry

\* C1: whenever the filter call of fetch-news fails in one of these ways,
\* filterWithGemini returns a prefix of at most 20 candidates, non-empty when
\* the candidate list is, each with relevance 'medium', the default category
\* and a null summary; the run goes on to the insert and is not answered 500
\* unless the insert itself throws.
C1_FilterFallback ==
    (IsFetchNews /\ Answered /\ FilterCallFailed) =>
        /\ Len(filtered) <= 20
        /\ Len(filtered) <= Len(allItems)
        /\ (Len(allItems) > 0 => Len(filtered) > 0)
        /\ \A i \in 1..Len(filtered) :
              /\ filtered[i].relevance = Medium
              /\ filtered[i].category = DefaultCategory
              /\ filtered[i].summary = JsNull
              /\ \A f \in DOMAIN allItems[i] : filtered[i][f] = allItems[i][f]
        /\ sent["supabase"] = 1
        /\ (res.status = 500 => StoreThrew)

C1_Witness ==
    /\ IsFetchNews /\ AnsweredArray /\ HasNullEntry
    /\ Len(allItems) > 20
    /\ Len(filtered) = 20
    /\ res.status = 200

\* C2: every failing fetcher of fetch-news contributes an empty list, every
\* item of a fetcher that succeeded is in the candidate list, and a 500 is
\* answered only for missing configuration or a throwing insert.
C2_SourceFailuresAbsorbed ==
    IsFetchNews =>
        /\ \A s \in SourceSet : outcome[s] \in FailureKinds => results[s] = <<>>
        /\ (FetchersSettled /\ pc \in {"filtering", "storing", "done"}) =>
              \A s \in SourceSet : outcome[s] = "ok" =>
                 \A i \in 1..Len(results[s]) :
                    \E j \in 1..Len(allItems) : allItems[j] = results[s][i]
        /\ (res.status = 500 => (MissingConfig(env) \/ StoreThrew))

C2_Witness ==
    /\ IsFetchNews /\ pc = "done" /\ res.status = 200
    /\ outcome["MHLW"] = "timeout" /\ outcome["ISA"] = "network_error" /\ outcome["MOJ"] = "ok"
    /\ Len(results["MOJ"]) > 0
    /\ allItems = results["MOJ"]

\* C3: fetch-news answers 401 exactly when a secret is configured, the
\* authorization header is not "Bearer <secret>" and the method is not POST;
\* a 401 run issues no request and sends no rows, and every other request
\* passes the gate (the fetches start, or configuration is missing).
C3_Gate ==
    IsFetchNews =>
        LET denied == /\ env.CRON_SECRET # <<>>
                      /\ req.authorization # Str("Bearer ") \o env.CRON_SECRET
                      /\ req.method # "POST"
        IN  /\ (res.status = 401) <=> denied
            /\ (res.status = 401 =>
                  /\ sent = Zero
                  /\ rowsSent = <<>>
                  /\ \A s \in SourceSet : outcome[s] = "idle")
            /\ (~denied =>
                  \/ \A s \in SourceSet : sent[s] = 1
                  \/ MissingConfig(env) /\ res.status = 500)

C3_Witness ==
    /\ IsFetchNews /\ res.status = 401
    /\ req.method = "GET" /\ req.authorization = Secret /\ env.CRON_SECRET = Secret
    /\ sent = Zero

\* C4: whenever the insert of a non-empty filtered list does not succeed,
\* fetch-news answers 200 with stored 0 and the fetched and filtered counts.
C4_StoreFailureAbsorbed ==
    (IsFetchNews /\ pc = "done" /\ storeReply \in {"http_error", "transport_error"}) =>
        /\ res.status = 200
        /\ res.body.stored = 0
        /\ res.body.fetched = Len(allItems)
        /\ res.body.filtered = Len(filtered)

InRange(sel) == "index" \in DOMAIN sel /\ sel.index >= 0 /\ sel.index < Len(allItems)

\* the entries of the answered array whose index is in range, in order
Kept == SelectSeq(answer.selected, InRange)

\* the candidate at the entry's index with the entry's three fields attached
Attached(sel) ==
    LET item == allItems[sel.index + 1]
        extra == {"summary", "relevance", "category"}
    IN  [f \in DOMAIN item \cup extra |->
            IF f \in extra THEN (IF f \in DOMAIN sel THEN sel[f] ELSE JsUndefined)
            ELSE item[f]]

ExpectedArticles == [i \in 1..Len(Kept) |-> Attached(Kept[i])]

Articles == IF req.endpoint = "news" THEN filtered.articles ELSE filtered

C5_Counts ==
    /\ res.status = 200
    /\ res.body.fetched = Len(allItems)
    /\ res.body.filtered = Len(Kept)
    /\ res.body.stored = Len(rowsSent[1])

\* C5: in a run of fetch-news where the filter service answers a parsable
\* array and the insert succeeds, one batch of rows is sent, one row per
\* entry with an in-range index, in the order of the array, with the title,
\* link, publish date and source of the candidate at that index and the
\* summary, relevance and category of the entry; the 200 response counts the
\* candidates, the selected articles and the rows sent.
C5_RowsVerbatim ==
    (IsFetchNews /\ AnsweredArray /\ storeReply = "ok") =>
        /\ Len(rowsSent) = 1
        /\ Len(rowsSent[1]) = Len(Kept)
        /\ \A i \in 1..Len(Kept) :
              LET row == rowsSent[1][i]
                  sel == Kept[i]
                  item == allItems[sel.index + 1]
              IN  /\ row.title = item.title
                  /\ row.link = item.link
                  /\ row.publish_date = item.publish_date
                  /\ row.source = item.source
                  /\ row.summary = Get(sel, "summary")
                  /\ row.relevance = Get(sel, "relevance")
                  /\ row.category = Get(sel, "category")
        /\ C5_Counts

\* C6: handling a request on the read endpoint (news.js) issues no request to
\* a source and none to the filter service.
C6_ReadIssuesNoFetch ==
    req.endpoint = "news" => \A d \in SourceSet \cup {"gemini"} : sent[d] = 0

\* C7: every row sent to the store has relevance 'high' or 'medium'.
C7_RowsHighOrMedium ==
    \A b \in 1..Len(rowsSent) :
        \A i \in 1..Len(rowsSent[b]) : rowsSent[b][i].relevance \in {High, Medium}

\* C8: the three GETs are issued together, the filter call is issued only
\* after all three fetchers settled, and the candidate list is the feed's
\* items, then the immigration page's, then the justice page's, with prompt
\* index i-1 naming the i-th candidate, whatever the order of completion.
C8_FixedOrder ==
    /\ (\E s \in SourceSet : outcome[s] # "idle") => \A s \in SourceSet : sent[s] = 1
    /\ sent["gemini"] >= 1 =>
          /\ FetchersSettled
          /\ Len(settled) = 3
          /\ allItems = results["MHLW"] \o results["ISA"] \o results["MOJ"]
          /\ Len(prompt) = Len(allItems)
          /\ \A i \in 1..Len(prompt) :
                /\ prompt[i].index = i - 1
                /\ prompt[i].source = allItems[i].source
                /\ prompt[i].title = allItems[i].title

C8_Witness ==
    /\ pc = "filtering"
    /\ settled = <<"MOJ", "ISA", "MHLW">>
    /\ \A s \in SourceSet : Len(results[s]) > 0
    /\ allItems[1].source = Label("MHLW")

\* C9: whenever the answer of the filter service holds a parsable array, the
\* result is exactly its entries with an in-range index, in order, each the
\* candidate at that index with the entry's summary, relevance and category;
\* an entry out of range or without an index is left out and the others stay.
C9_EntriesExcludedNotAborted == AnsweredArray => Articles = ExpectedArticles

\* C10: in one run of fetch-news each source gets at most one GET, the filter
\* service at most one call and the store at most one insert; the filter is
\* called only after the three fetchers settled with a non-empty candidate
\* list, and the insert is sent only after the filter returned a non-empty
\* list.
C10_OrderedNoRetry ==
    IsFetchNews =>
        /\ \A d \in DOMAIN sent : sent[d] <= 1
        /\ Len(rowsSent) = sent["supabase"]
        /\ (sent["gemini"] = 1 =>
              /\ \A s \in SourceSet : sent[s] = 1
              /\ FetchersSettled
              /\ Len(allItems) > 0)
        /\ (sent["supabase"] = 1 =>
              /\ sent["gemini"] = 1
              /\ Answered
              /\ Len(filtered) > 0)

C10_Witness ==
    /\ IsFetchNews /\ pc = "done" /\ res.status = 200
    /\ sent["gemini"] = 1 /\ sent["supabase"] = 0
    /\ Answered /\ Len(filtered) = 0

====
